---- MODULE Spec2Model ----
(***************************************************************************)
(* The accrual-and-settlement pipeline of BlockchainService                *)
(* (src/src/backend/api/backend_blockchain.py): the action queue, the      *)
(* batch settlement processor, the backend signer's nonces, the            *)
(* statistics cache and the reward estimate; and the token counters of     *)
(* src/src/backend/api/backend.py (user_cache, store_message).             *)
(*                                                                         *)
(* Time is counted in ticks of one minute.  A timestamp is the tick at     *)
(* which the clock is read, so two clock reads in the same tick give the   *)
(* same timestamp.                                                         *)
(*                                                                         *)
(* The batch processor, grant_achievement, record_referral and             *)
(* get_user_stats are cut at the awaits that separate a read from the      *)
(* write that depends on it: one action is the code that runs between two  *)
(* such suspension points of the event loop.  queue_action is one step.    *)
(***************************************************************************)
EXTENDS Integers, Sequences, FiniteSets, TLC

VARIABLES
    now,                    \* the wall clock, in ticks
    loops,                  \* number of _batch_processor tasks created
    running,                \* number of _process_batch_from_lance calls begun and not ended
    proc,                   \* the batch processor coroutine: position and locals
    pending_actions,        \* LanceDB table "pending_actions", rows in insertion order
    action_status,          \* MongoDB collection action_status, keyed by action_id
    pending_contributions,  \* self.pending_contributions, the in-memory deque
    txCount,                \* the chain: transactions of the backend account in the latest block
    mempool,                \* the chain: nonces of accepted, not yet mined transactions
    signed,                 \* every transaction the backend account signed and sent, in order
    inflight,               \* request handlers suspended between their nonce read and their send
    referred_by,            \* MongoDB users.referred_by, per wallet
    lastCall,               \* what the last finished request handler saw and returned
    user_stats_cache,       \* LanceDB table "user_stats_cache", a bag of rows kept as a set
    onchain,                \* the ledger's statistics per wallet
    statsCalls,             \* get_user_stats calls suspended in _get_onchain_stats
    lastStats,              \* what the last finished get_user_stats call saw and returned
    user_cache,             \* backend.py user_cache: wallet -> user record (its token counters)
    stores,                 \* the store_message calls so far, each suspended or ended
    returned_tokens,        \* per wallet, the sum of token_count over the store_message calls that returned
    today,                  \* the calendar day, datetime.now().date()
    counted_tokens,         \* per wallet, the sum of tokens over the update_user_token_count calls for it
    estimate_call,          \* the last _estimate_earnings call: its inputs and what it returned
    redis_client,           \* backend.py redis_client: whether it is built, redis_available, the remote store
    memory_store,           \* FallbackRedisClient.memory_store: key -> value
    cache_call,             \* the last call of the cache store (what it was asked and returned), with
                            \* the deadline and the value the callers last set per key
    earn_calls,             \* the update_wallet_earnings_cache calls so far, each suspended or ended
    referral_calls,         \* the record_referral calls so far, each suspended or ended
    today_earnings          \* the day's store_message earnings of a wallet and the last stats read of them

queueVars == <<loops, running, proc, pending_actions, action_status,
               pending_contributions, txCount, mempool, signed, inflight,
               referred_by, lastCall>>
statsVars == <<user_stats_cache, onchain, statsCalls, lastStats>>
accrualVars == <<user_cache, stores, returned_tokens, today, counted_tokens>>
cacheVars == <<redis_client, memory_store, cache_call>>
earnVars == <<earn_calls, referral_calls, today_earnings>>
otherVars == <<accrualVars, estimate_call, cacheVars, earnVars>>
vars == <<now, queueVars, statsVars, otherVars>>

----------------------------------------------------------------------------
(* Bounds of the model *)

MaxTime == 1          \* last tick of the clock in the queue specification
MaxRows == 2          \* rows of pending_actions
MaxTx == 3            \* transactions signed by the backend account
MaxInflight == 1      \* request handlers suspended at once
MaxStatsTime == 6     \* last tick of the clock in the statistics specification
MaxStat == 1          \* largest value of a ledger statistic
MaxStatsCalls == 1    \* get_user_stats calls suspended at once

(* Program constants *)

MaxRetries == 3       \* "retry_count < 3"
BatchLimit == 50      \* ".limit(50)"
CacheTTL == 5         \* timedelta(minutes=5)
DayLen == 1440        \* ticks of one calendar day: datetime.now().date()

Wallets == {"w1", "w2"}
QueueWallets == {"w1"}     \* the wallets queue_action is called for directly
ActionTypes == {"REFERRAL", "DAILY_CHECKIN"}
UnknownTypes == {"BOGUS"}          \* an action_type that is no key of ACTION_TYPES
InvalidWallets == {"not-an-address"}
NoOne == "none"

----------------------------------------------------------------------------
(* Pure helpers *)

\* _generate_action_id: sha256 of "wallet_type_timestamp", kept as the triple
\* it hashes (the digest is taken to be injective on it).
generate_action_id(wallet, action_type, t) == <<wallet, action_type, t>>

\* The day a timestamp falls in: the "time bucket" of a daily action.
Bucket(t) == t \div DayLen

\* Faulty variant: only a confirmed action counts as processed.
is_action_processed_confirmed_only(aid) ==
    /\ aid \in DOMAIN action_status
    /\ action_status[aid].status = "confirmed"

\* Faulty variant: an action whose submission failed counts as processed.
is_action_processed_or_failed(aid) ==
    \/ /\ aid \in DOMAIN action_status
       /\ action_status[aid].status \in {"confirmed", "processing"}
    \/ \E k \in 1..Len(pending_actions) :
            pending_actions[k].action_id = aid /\ pending_actions[k].retry_count > 0

\* _is_action_processed: a document of action_status with this id whose
\* status is confirmed or processing.
is_action_processed(aid) ==
    /\ aid \in DOMAIN action_status
    /\ action_status[aid].status \in {"confirmed", "processing"}

RECURSIVE Take(_, _)
Take(s, n) == IF n = 0 \/ s = <<>> THEN <<>> ELSE <<Head(s)>> \o Take(Tail(s), n - 1)

\* The where clause and limit of _batch_processor's search.
SelectPending(rows) ==
    Take(SelectSeq(rows, LAMBDA r: r.status = "pending" /\ r.retry_count < MaxRetries),
         BatchLimit)

\* The keys of the dict "grouped", in insertion order.
RECURSIVE TypesInOrder(_, _)
TypesInOrder(rows, seen) ==
    IF rows = <<>> THEN <<>>
    ELSE IF Head(rows).action_type \in seen THEN TypesInOrder(Tail(rows), seen)
    ELSE <<Head(rows).action_type>>
             \o TypesInOrder(Tail(rows), seen \cup {Head(rows).action_type})

IdsOf(rows) == [k \in 1..Len(rows) |-> rows[k].action_id]

\* _process_batch_from_lance's grouping: one list of actions per action type.
GroupByType(rows) ==
    LET ts == TypesInOrder(rows, {})
    IN  [k \in 1..Len(ts) |->
            IdsOf(SelectSeq(rows, LAMBDA r: r.action_type = ts[k]))]

\* _increment_retry_count for every action of a group.
IncrementRetry(rows, ids) ==
    [k \in 1..Len(rows) |->
        IF \E j \in 1..Len(ids) : ids[j] = rows[k].action_id
        THEN [rows[k] EXCEPT
                !.retry_count = @ + 1,
                !.status = IF rows[k].retry_count + 1 >= MaxRetries
                           THEN "abandoned" ELSE "pending"]
        ELSE rows[k]]

\* Web3.is_address
is_address(wallet) == wallet \in Wallets

\* The action type of a group of _process_batch_from_lance.
GroupType(rows, group) ==
    rows[CHOOSE k \in 1..Len(rows) : rows[k].action_id = group[1]].action_type

\* The preparation loop of _process_generic_action_batch raises KeyError on
\* ACTION_TYPES[action['action_type']] for a type that is no key of it.
CanPrepare(rows, group) == GroupType(rows, group) \in ActionTypes

\* The groups left once the leading groups whose preparation raises have
\* gone through the except branch.
RECURSIVE Preparable(_, _)
Preparable(rows, groups) ==
    IF groups = <<>> \/ CanPrepare(rows, Head(groups)) THEN groups
    ELSE Preparable(rows, Tail(groups))

\* The rows after the except branch of each of those leading groups.
RECURSIVE PreparedRows(_, _)
PreparedRows(rows, groups) ==
    IF groups = <<>> \/ CanPrepare(rows, Head(groups)) THEN rows
    ELSE PreparedRows(IncrementRetry(rows, Head(groups)), Tail(groups))

\* w3.eth.get_transaction_count(address): the count at the latest block.
get_transaction_count == txCount

\* The node takes a transaction whose nonce is not already mined.
NodeCanAccept(nonce) == nonce >= txCount

\* "await asyncio.sleep(300)", in ticks of one minute
SleepTicks == 5

\* "await asyncio.sleep(60)" of the loop's except branch, in ticks
ErrorSleepTicks == 1

\* The loop at its sleep; wake is the time the sleep ends and after_error
\* says that the sleep is the one of the except branch.
Idle == [pc |-> "sleep", groups |-> <<>>, i |-> 0, nonce |-> 0, batch |-> 0, tx |-> 0,
         wake |-> 0, after_error |-> FALSE]

\* Entry of _process_generic_action_batch for the next group, up to its first
\* await: the nonce is read once per group.  With no group left the batch
\* has ended and the loop sleeps for SleepTicks.
EnterGroup(groups, batch) ==
    IF groups = <<>>
    THEN [Idle EXCEPT !.batch = batch, !.wake = now + SleepTicks]
    ELSE [pc |-> "gas", groups |-> groups, i |-> 1,
          nonce |-> get_transaction_count, batch |-> batch, tx |-> 0, wake |-> 0,
          after_error |-> FALSE]

\* The cache store: keys, values, times to live in ticks.  None is Python's
\* None; a key the remote store does not hold is Absent there.  An expiry
\* is the set of the one time it falls at, empty for a key that stays.
CacheKeys == {"earnings:w1"}
TodayKey == "earnings:w1:today"     \* f"earnings:{wallet}:{date}", a counter
StoreKeys == CacheKeys \cup {TodayKey}
CacheValues == {"a", "b"}
TTLs == {1, 2}
None == "None"
Absent == [value |-> None, expires |-> {}]

----------------------------------------------------------------------------
(* Initial state: a freshly constructed service, empty stores *)

NoCall == [op |-> "none", status |-> "none", wallet |-> NoOne,
           action_type |-> "none", at |-> 0, repeat |-> FALSE]
NoEstimate == [op |-> "none"]
NoClient == [created |-> FALSE, redis_available |-> FALSE,
             remote |-> [key \in StoreKeys |-> Absent]]
NoEarnings == [messages |-> 0, earned |-> 0, answered |-> TRUE,
               read |-> FALSE, read_answered |-> FALSE, message_part |-> 0]
NoCacheCall == [op |-> "none", key |-> "none", result |-> None, at |-> 0,
                deadline |-> [key \in CacheKeys |-> {}],
                written |-> [key \in CacheKeys |-> None]]
NoStats == [wallet |-> NoOne, outcome |-> "none", source |-> "none", value |-> 0,
            at |-> 0, fresh |-> FALSE, known |-> FALSE, reads |-> 0,
            ledger_ok |-> FALSE, wrote |-> FALSE]

Init ==
    /\ now = 0
    /\ loops = 0
    /\ running = 0
    /\ proc = [Idle EXCEPT !.pc = "none"]
    /\ pending_actions = <<>>
    /\ action_status = <<>>
    /\ pending_contributions = <<>>
    /\ txCount = 0
    /\ mempool = {}
    /\ signed = <<>>
    /\ inflight = {}
    /\ referred_by = [w \in Wallets |-> NoOne]
    /\ lastCall = NoCall
    /\ user_stats_cache = {}
    /\ onchain = [w \in Wallets |-> 0]
    /\ statsCalls = {}
    /\ lastStats = NoStats
    /\ user_cache = <<>>
    /\ stores = <<>>
    /\ returned_tokens = [w \in Wallets |-> 0]
    /\ today = 0
    /\ counted_tokens = [w \in Wallets |-> 0]
    /\ estimate_call = NoEstimate
    /\ redis_client = NoClient
    /\ memory_store = [key \in StoreKeys |-> None]
    /\ cache_call = NoCacheCall
    /\ earn_calls = <<>>
    /\ referral_calls = <<>>
    /\ today_earnings = NoEarnings

----------------------------------------------------------------------------
(* The clock *)

Advance(limit) ==
    /\ now < limit
    /\ now' = now + 1
    /\ UNCHANGED <<queueVars, statsVars, otherVars>>

Tick == Advance(MaxTime)

----------------------------------------------------------------------------
(* _initialize: starts the one batch processor task *)

Initialize ==
    /\ loops = 0
    /\ loops' = loops + 1
    /\ proc' = Idle
    /\ UNCHANGED <<now, running, pending_actions, action_status,
                   pending_contributions, txCount, mempool, signed, inflight,
                   referred_by, lastCall, statsVars, otherVars>>

----------------------------------------------------------------------------
(* queue_action *)

NewRow(aid, wallet, action_type) ==
    [action_id |-> aid, user_wallet |-> wallet, action_type |-> action_type,
     queued_at |-> now, status |-> "pending", retry_count |-> 0]

\* An earlier durable record of the same logical event: same wallet, same
\* action type, same time bucket.
SameEventQueued(wallet, action_type, t) ==
    \E k \in 1..Len(pending_actions) :
        /\ pending_actions[k].user_wallet = wallet
        /\ pending_actions[k].action_type = action_type
        /\ Bucket(pending_actions[k].queued_at) = Bucket(t)

\* _initialize has run: the stores are connected and the contracts loaded.
Initialized == loops > 0

\* Faulty variant: the row is written and the deque is left alone.
QueueEffect_row_only(wallet, action_type) ==
    LET aid == generate_action_id(wallet, action_type, now)
    IN  IF is_action_processed(aid)
        THEN UNCHANGED <<pending_actions, pending_contributions>>
        ELSE /\ Len(pending_actions) < MaxRows
             /\ pending_actions' = Append(pending_actions, NewRow(aid, wallet, action_type))
             /\ UNCHANGED pending_contributions

\* The two writes of queue_action (the LanceDB row, then the deque entry
\* under batch_lock), or neither when the action id is already
\* confirmed or processing.
QueueEffect(wallet, action_type) ==
    LET aid == generate_action_id(wallet, action_type, now)
    IN  IF is_action_processed(aid)
        THEN UNCHANGED <<pending_actions, pending_contributions>>
        ELSE /\ Len(pending_actions) < MaxRows
             /\ pending_actions' = Append(pending_actions, NewRow(aid, wallet, action_type))
             /\ pending_contributions' = Append(pending_contributions, aid)

\* The 'status' of the dict queue_action returns.
QueueStatus(wallet, action_type) ==
    IF is_action_processed(generate_action_id(wallet, action_type, now))
    THEN "already_processed" ELSE "queued"

\* queue_action for a wallet that is an address and a type of the given set.
QueueActionOf(types) ==
    \E wallet \in QueueWallets, action_type \in types :
        /\ Initialized
        /\ QueueEffect(wallet, action_type)
        /\ lastCall' = [op |-> "queue_action", status |-> QueueStatus(wallet, action_type),
                        wallet |-> wallet, action_type |-> action_type, at |-> now,
                        repeat |-> SameEventQueued(wallet, action_type, now)]
        /\ UNCHANGED <<now, loops, running, proc, action_status, txCount, mempool,
                       signed, inflight, referred_by, statsVars, otherVars>>

QueueAction == QueueActionOf(ActionTypes)

\* The caller passes any string as action_type.
QueueActionAnyType == QueueActionOf(ActionTypes \cup UnknownTypes)

\* Web3.is_address fails: ValueError leaves queue_action before any write.
QueueActionInvalidWallet ==
    \E wallet \in InvalidWallets, action_type \in ActionTypes :
        /\ Initialized
        /\ ~is_address(wallet)
        /\ lastCall' = [op |-> "queue_action", status |-> "raised",
                        wallet |-> wallet, action_type |-> action_type, at |-> now,
                        repeat |-> FALSE]
        /\ UNCHANGED <<now, loops, running, proc, pending_actions, action_status,
                       pending_contributions, txCount, mempool, signed, inflight,
                       referred_by, statsVars, otherVars>>

----------------------------------------------------------------------------
(* _batch_processor and _process_generic_action_batch *)

\* Faulty variant: the loop starts its batch as a task of its own and goes back to
\* sleep, so the timer fires whether or not the previous batch has ended.
LoopReady_unawaited == proc.pc # "none"

\* The loop is at its sleep: the previous cycle's batch has been awaited.
LoopReady == proc.pc = "sleep"

\* One turn of the loop of _batch_processor that finds pending rows.  The
\* numbering of batches is history: it is kept when record is TRUE.
CycleStartStep(record) ==
    /\ LoopReady
    /\ Len(signed) < MaxTx
    /\ LET pending == SelectPending(pending_actions)
           groups == GroupByType(pending)
           rest == Preparable(pending_actions, groups)
       IN  /\ pending # <<>>
           /\ proc' = EnterGroup(rest, IF record THEN proc.batch + 1 ELSE proc.batch)
           /\ pending_actions' = PreparedRows(pending_actions, groups)
           /\ running' = IF rest = <<>> THEN running ELSE running + 1
    /\ UNCHANGED <<now, loops, action_status, pending_contributions,
                   txCount, mempool, signed, inflight, referred_by, lastCall, statsVars, otherVars>>

CycleStart == CycleStartStep(TRUE)

\* After one group, which leaves the rows as given: the entry of the next
\* group that can be prepared, or the end of the batch.
AfterGroup(rows) ==
    LET rest == Preparable(rows, Tail(proc.groups))
    IN  /\ proc' = EnterGroup(rest, proc.batch)
        /\ pending_actions' = PreparedRows(rows, Tail(proc.groups))
        /\ running' = IF rest = <<>> THEN running - 1 ELSE running

\* One pass of the loop body of _process_generic_action_batch up to the
\* send.  The list of signed transactions is history: it is extended when
\* record is TRUE.
SubmitStep(record) ==
    /\ proc.pc = "gas"
    /\ Len(signed) < MaxTx
    /\ LET group == Head(proc.groups)
           aid == group[proc.i]
           nonce == proc.nonce + (proc.i - 1)
       IN  \E ok \in BOOLEAN :
            /\ ok => NodeCanAccept(nonce)
            /\ signed' = IF record
                         THEN Append(signed, [nonce |-> nonce, aid |-> aid, by |-> "batch",
                                              batch |-> proc.batch, ok |-> ok])
                         ELSE signed
            /\ IF ok
               THEN /\ mempool' = mempool \cup {nonce}
                    /\ proc' = [proc EXCEPT !.pc = "update", !.tx = Len(signed) + 1]
                    /\ UNCHANGED <<pending_actions, running>>
               ELSE /\ AfterGroup(IncrementRetry(pending_actions, group))
                    /\ UNCHANGED mempool
    /\ UNCHANGED <<now, loops, action_status, pending_contributions, txCount,
                   inflight, referred_by, lastCall, statsVars, otherVars>>

Submit == SubmitStep(TRUE)

\* _update_action_status(action_id, 'processing', tx_hash): an upsert.
update_action_status(aid, status, tx) ==
    [a \in DOMAIN action_status \cup {aid} |->
        IF a = aid THEN [status |-> status, tx_hash |-> tx] ELSE action_status[a]]

UpdateStatus ==
    /\ proc.pc = "update"
    /\ LET group == Head(proc.groups)
       IN  /\ action_status' = update_action_status(group[proc.i], "processing", proc.tx)
           /\ IF proc.i < Len(group)
              THEN /\ proc' = [proc EXCEPT !.pc = "gas", !.i = @ + 1, !.tx = 0]
                   /\ UNCHANGED <<running, pending_actions>>
              ELSE AfterGroup(pending_actions)
    /\ UNCHANGED <<now, loops, pending_contributions, txCount,
                   mempool, signed, inflight, referred_by, lastCall, statsVars, otherVars>>

----------------------------------------------------------------------------
(* The chain *)

Mine ==
    /\ txCount \in mempool
    /\ txCount' = txCount + 1
    /\ mempool' = mempool \ {txCount}
    /\ UNCHANGED <<now, loops, running, proc, pending_actions, action_status,
                   pending_contributions, signed, inflight, referred_by, lastCall,
                   statsVars, otherVars>>

----------------------------------------------------------------------------
(* grant_achievement and record_referral: each reads the nonce, awaits the  *)
(* gas price, then signs and sends on the request path                      *)

NoAction == <<NoOne, "none", 0>>

HandlerTx(call, ok) ==
    [nonce |-> call.nonce, aid |-> NoAction, by |-> call.op, batch |-> 0, ok |-> ok]

Returned(op, status, wallet) ==
    [op |-> op, status |-> status, wallet |-> wallet, action_type |-> "none",
     at |-> now, repeat |-> FALSE]

GrantAchievementStart ==
    \E wallet \in Wallets :
        /\ Initialized
        /\ Cardinality(inflight) < MaxInflight
        /\ inflight' = inflight \cup {[op |-> "grant_achievement", wallet |-> wallet,
                                        referrer |-> NoOne, nonce |-> get_transaction_count]}
        /\ UNCHANGED <<now, loops, running, proc, pending_actions, action_status,
                       pending_contributions, txCount, mempool, signed, referred_by,
                       lastCall, statsVars, otherVars>>

GrantAchievementSend ==
    \E call \in inflight, ok \in BOOLEAN :
        /\ call.op = "grant_achievement"
        /\ Len(signed) < MaxTx
        /\ ok => NodeCanAccept(call.nonce)
        /\ inflight' = inflight \ {call}
        /\ signed' = Append(signed, HandlerTx(call, ok))
        /\ mempool' = IF ok THEN mempool \cup {call.nonce} ELSE mempool
        /\ lastCall' = Returned(call.op, IF ok THEN "success" ELSE "raised", call.wallet)
        /\ UNCHANGED <<now, loops, running, proc, pending_actions, action_status,
                       pending_contributions, txCount, referred_by, statsVars, otherVars>>

\* The referee already has a referrer: an error is returned and nothing is sent.
RecordReferralRefused ==
    \E referrer \in Wallets, referee \in Wallets :
        /\ Initialized
        /\ referred_by[referee] # NoOne
        /\ lastCall' = Returned("record_referral", "error", referee)
        /\ UNCHANGED <<now, loops, running, proc, pending_actions, action_status,
                       pending_contributions, txCount, mempool, signed, inflight,
                       referred_by, statsVars, otherVars>>

RecordReferralStart ==
    \E referrer \in QueueWallets, referee \in Wallets :
        /\ Initialized
        /\ referred_by[referee] = NoOne
        /\ Cardinality(inflight) < MaxInflight
        /\ inflight' = inflight \cup {[op |-> "record_referral", wallet |-> referee,
                                        referrer |-> referrer, nonce |-> get_transaction_count]}
        /\ UNCHANGED <<now, loops, running, proc, pending_actions, action_status,
                       pending_contributions, txCount, mempool, signed, referred_by,
                       lastCall, statsVars, otherVars>>

\* The send raises: the exception leaves record_referral before any write.
RecordReferralRaises ==
    \E call \in inflight :
        /\ call.op = "record_referral"
        /\ Len(signed) < MaxTx
        /\ inflight' = inflight \ {call}
        /\ signed' = Append(signed, HandlerTx(call, FALSE))
        /\ lastCall' = Returned(call.op, "raised", call.wallet)
        /\ UNCHANGED <<now, loops, running, proc, pending_actions, action_status,
                       pending_contributions, txCount, mempool, referred_by, statsVars, otherVars>>

\* The send is accepted: users.referred_by is set and the REFERRAL bonus of
\* the referrer goes through queue_action.
RecordReferralSend ==
    \E call \in inflight :
        /\ call.op = "record_referral"
        /\ Len(signed) < MaxTx
        /\ NodeCanAccept(call.nonce)
        /\ inflight' = inflight \ {call}
        /\ signed' = Append(signed, HandlerTx(call, TRUE))
        /\ mempool' = mempool \cup {call.nonce}
        /\ referred_by' = [referred_by EXCEPT ![call.wallet] = call.referrer]
        /\ QueueEffect(call.referrer, "REFERRAL")
        /\ lastCall' = Returned(call.op, "success", call.wallet)
        /\ UNCHANGED <<now, loops, running, proc, action_status, txCount, statsVars, otherVars>>

----------------------------------------------------------------------------
Next ==
    \/ Tick
    \/ Initialize
    \/ QueueAction
    \/ CycleStart
    \/ Submit
    \/ UpdateStatus
    \/ Mine

Spec == Init /\ [][Next]_vars

\* The settlement batch together with the request handlers that sign.
NextSigner ==
    \/ Initialize
    \/ QueueAction
    \/ CycleStart
    \/ Submit
    \/ UpdateStatus
    \/ Mine
    \/ GrantAchievementStart
    \/ GrantAchievementSend
    \/ RecordReferralRefused
    \/ RecordReferralStart
    \/ RecordReferralRaises
    \/ RecordReferralSend

\* The queue with every input its callers can pass and the processor,
\* both without their history, under the scheduling
\* of the event loop: the processor's loop never ends and each of its awaits
\* returns or raises, so a step of the processor that stays possible is taken.
CycleStartUnrecorded == CycleStartStep(FALSE)
SubmitUnrecorded == SubmitStep(FALSE)

NextLive ==
    \/ Initialize
    \/ QueueActionAnyType
    \/ QueueActionInvalidWallet
    \/ CycleStartUnrecorded
    \/ SubmitUnrecorded
    \/ UpdateStatus

SpecLive ==
    /\ Init
    /\ [][NextLive]_vars
    /\ WF_vars(Initialize)
    /\ WF_vars(CycleStartUnrecorded)
    /\ WF_vars(SubmitUnrecorded)
    /\ WF_vars(UpdateStatus)

SpecSigner == Init /\ [][NextSigner]_vars

----------------------------------------------------------------------------
(* The loop of _batch_processor with its timer *)

\* The sleep of the loop has ended.
TimerDue == now >= proc.wake

\* A turn of the loop that finds pending rows, taken when the sleep has ended.
CycleStartTimed == TimerDue /\ CycleStartStep(FALSE)

\* A turn of the loop that finds no pending row: it sleeps again.
CycleIdle ==
    /\ LoopReady
    /\ TimerDue
    /\ SelectPending(pending_actions) = <<>>
    /\ proc' = [proc EXCEPT !.wake = now + SleepTicks, !.after_error = FALSE]
    /\ UNCHANGED <<now, loops, running, pending_actions, action_status,
                   pending_contributions, txCount, mempool, signed, inflight,
                   referred_by, lastCall, statsVars, otherVars>>

\* The exceptions a cycle lets out of _process_batch_from_lance or of the
\* search: a method that does not exist, a key that does not, a store or a
\* node that cannot be reached.  Each derives from Exception.
Exceptions == {"AttributeError", "KeyError", "ConnectionError"}

\* Faulty variant: the loop handles lookup errors only.
LoopCatches_lookup_errors(class) == class = "KeyError"

\* "except Exception as e" of _batch_processor
LoopCatches(class) == class \in Exceptions

\* An exception leaves the cycle, from the search of a turn or from inside
\* the batch, and reaches the loop: caught, it is logged and the loop
\* sleeps ErrorSleepTicks; otherwise it ends the task.
CycleRaises ==
    \E class \in Exceptions :
        /\ proc.pc \in {"gas", "update"} \/ (LoopReady /\ TimerDue)
        /\ proc' = IF LoopCatches(class)
                   THEN [Idle EXCEPT !.batch = proc.batch, !.wake = now + ErrorSleepTicks,
                                     !.after_error = TRUE]
                   ELSE [Idle EXCEPT !.pc = "stopped", !.batch = proc.batch]
        /\ running' = IF proc.pc \in {"gas", "update"} THEN running - 1 ELSE running
        /\ UNCHANGED <<now, loops, pending_actions, action_status,
                       pending_contributions, txCount, mempool, signed, inflight,
                       referred_by, lastCall, statsVars, otherVars>>

MaxTimerTime == 5      \* last tick of the timed clock: one whole sleep

TickTimer == Advance(MaxTimerTime)

NextTimer ==
    \/ TickTimer
    \/ Initialize
    \/ QueueAction
    \/ CycleStartTimed
    \/ CycleIdle
    \/ CycleRaises
    \/ SubmitUnrecorded
    \/ UpdateStatus

SpecTimer == Init /\ [][NextTimer]_vars

----------------------------------------------------------------------------
(* get_user_stats: the statistics cache in front of the ledger *)

StatsWallets == Wallets

\* The columns of a row that get_user_stats adds to user_stats_cache.  The
\* statistics are stood for by total_earned.
CacheRow(wallet, stats, t) ==
    [wallet |-> wallet, total_earned |-> stats, last_updated |-> t,
     cache_expiry |-> t + CacheTTL]

\* Faulty variant: the expiry of a row is not compared with the clock.
CacheSearch_ignores_expiry(wallet, t) ==
    {r \in user_stats_cache : r.wallet = wallet}

\* The search "wallet = W AND cache_expiry > now" of get_user_stats.
CacheSearch(wallet, t) ==
    {r \in user_stats_cache : r.wallet = wallet /\ r.cache_expiry > t}

\* Faulty variant: a failed ledger read is answered by caching zeroed statistics.
RowsToCache_on_failure(wallet, ok, stats, t) ==
    {CacheRow(wallet, IF ok THEN stats ELSE 0, t)}

\* Faulty variant: the row is written without the time-to-live.
RowsToCache_no_ttl(wallet, ok, stats, t) ==
    IF ok THEN {[CacheRow(wallet, stats, t) EXCEPT !.cache_expiry = t]} ELSE {}

\* What get_user_stats adds to the cache once _get_onchain_stats has ended:
\* one row when it returned, nothing when it raised.
RowsToCache(wallet, ok, stats, t) ==
    IF ok THEN {CacheRow(wallet, stats, t)} ELSE {}

\* An unexpired row of the wallet, as the clock stands.
HasUnexpired(wallet) ==
    \E r \in user_stats_cache : r.wallet = wallet /\ r.cache_expiry > now

HasEntry(wallet) == \E r \in user_stats_cache : r.wallet = wallet

\* json.loads(cached[0]['metadata']) on a row of the search: the rows have
\* no 'metadata' column, so the subscript raises KeyError.
ServeCached(row) ==
    IF "metadata" \in DOMAIN row
    THEN [outcome |-> "ok", value |-> row["metadata"]]
    ELSE [outcome |-> "KeyError", value |-> 0]

\* The cache answers: the call ends without a ledger read.
GetUserStatsHit ==
    \E wallet \in StatsWallets :
        \E row \in CacheSearch(wallet, now) :
            /\ lastStats' = [wallet |-> wallet, outcome |-> ServeCached(row).outcome,
                             source |-> "cache", value |-> ServeCached(row).value,
                             at |-> now, fresh |-> HasUnexpired(wallet),
                             known |-> HasEntry(wallet), reads |-> 0,
                             ledger_ok |-> FALSE, wrote |-> FALSE]
            /\ UNCHANGED <<otherVars, now, queueVars, user_stats_cache, onchain, statsCalls>>

\* The search is empty: the call is suspended in _get_onchain_stats.
GetUserStatsMiss ==
    \E wallet \in StatsWallets :
        /\ CacheSearch(wallet, now) = {}
        /\ Cardinality(statsCalls) < MaxStatsCalls
        /\ statsCalls' = statsCalls \cup
                {[wallet |-> wallet, started |-> now, fresh |-> HasUnexpired(wallet),
                  known |-> HasEntry(wallet), reads |-> 1]}
        /\ UNCHANGED <<otherVars, now, queueVars, user_stats_cache, onchain, lastStats>>

\* _get_onchain_stats ends, by returning the ledger's statistics or by
\* raising; the row is added and the statistics are returned, or the
\* exception leaves get_user_stats.
GetUserStatsFinish ==
    \E call \in statsCalls, ok \in BOOLEAN :
        LET rows == RowsToCache(call.wallet, ok, onchain[call.wallet], now)
        IN  /\ statsCalls' = statsCalls \ {call}
            /\ user_stats_cache' = user_stats_cache \cup rows
            /\ lastStats' = [wallet |-> call.wallet,
                             outcome |-> IF ok THEN "ok" ELSE "LedgerError",
                             source |-> "ledger",
                             value |-> IF ok THEN onchain[call.wallet] ELSE 0,
                             at |-> now, fresh |-> call.fresh, known |-> call.known,
                             reads |-> call.reads, ledger_ok |-> ok,
                             wrote |-> rows # {}]
            /\ UNCHANGED <<otherVars, now, queueVars, onchain>>

\* The ledger moves on: settlements raise the wallet's statistics.
LedgerChange ==
    \E wallet \in StatsWallets :
        /\ onchain[wallet] < MaxStat
        /\ onchain' = [onchain EXCEPT ![wallet] = @ + 1]
        /\ UNCHANGED <<otherVars, now, queueVars, user_stats_cache, statsCalls, lastStats>>

TickStats == Advance(MaxStatsTime)

NextStats ==
    \/ TickStats
    \/ LedgerChange
    \/ GetUserStatsHit
    \/ GetUserStatsMiss
    \/ GetUserStatsFinish

SpecStats == Init /\ [][NextStats]_vars

----------------------------------------------------------------------------
(* process_daily_checkin: the search of user_stats_cache, then queue_action *)

\* An unexpired row of the wallet in user_stats_cache (a row get_user_stats
\* added) answers 'already_checked_in'; otherwise the call is queue_action
\* with action_type DAILY_CHECKIN and replies what queue_action replies.
ProcessDailyCheckin ==
    \E wallet \in QueueWallets :
        /\ Initialized
        /\ IF CacheSearch(wallet, now) # {}
           THEN /\ lastCall' = [op |-> "process_daily_checkin",
                                status |-> "already_checked_in", wallet |-> wallet,
                                action_type |-> "DAILY_CHECKIN", at |-> now,
                                repeat |-> SameEventQueued(wallet, "DAILY_CHECKIN", now)]
                /\ UNCHANGED <<pending_actions, pending_contributions>>
           ELSE /\ QueueEffect(wallet, "DAILY_CHECKIN")
                /\ lastCall' = [op |-> "process_daily_checkin",
                                status |-> QueueStatus(wallet, "DAILY_CHECKIN"),
                                wallet |-> wallet,
                                action_type |-> "DAILY_CHECKIN", at |-> now,
                                repeat |-> SameEventQueued(wallet, "DAILY_CHECKIN", now)]
        /\ UNCHANGED <<now, loops, running, proc, action_status, txCount, mempool,
                       signed, inflight, referred_by, statsVars, otherVars>>

NextCheckin ==
    \/ Tick
    \/ Initialize
    \/ ProcessDailyCheckin
    \/ GetUserStatsHit
    \/ GetUserStatsMiss
    \/ GetUserStatsFinish

SpecCheckin == Init /\ [][NextCheckin]_vars

----------------------------------------------------------------------------
(* The token counters of backend.py: user_cache, create_user,              *)
(* update_user_token_count and the store_message endpoint.  The users      *)
(* table is taken to be connected, so create_user does not raise.          *)

MaxRequests == 2      \* store_message calls
MaxDay == 1           \* last calendar day

Platforms == {"claude", "chatgpt"}
Roles == {"user", "assistant"}
TokenCounts == {0, 1, 2}     \* count_tokens(text, platform)["total_tokens"]

\* dict.get(k, default) and d[k] = v
DictGet(d, k, default) == IF k \in DOMAIN d THEN d[k] ELSE default
DictSet(d, k, v) == [x \in DOMAIN d \cup {k} |-> IF x = k THEN v ELSE d[x]]

\* find_user_by_wallet: the cache is the only place looked at.
find_user_by_wallet(cache, wallet) == wallet \in DOMAIN cache

\* The token fields of the record create_user builds from the user_doc of
\* its callers.
NewUser ==
    [total_tokens |-> 0, tokens_by_platform |-> <<>>,
     tokens_by_role |-> [r \in Roles |-> 0], daily_tokens |-> <<>>]

\* create_user: a wallet already in the cache keeps its record.
create_user(cache, wallet) ==
    IF wallet \in DOMAIN cache THEN cache
    ELSE [w \in DOMAIN cache \cup {wallet} |-> IF w = wallet THEN NewUser ELSE cache[w]]

\* Faulty variant: the platform map is rebuilt with the one platform.
update_user_token_count_one_platform(cache, wallet, token_metrics, role, day) ==
    IF wallet \notin DOMAIN cache THEN cache
    ELSE LET user == cache[wallet]
             tokens == token_metrics.total_tokens
         IN  [cache EXCEPT ![wallet] =
                [total_tokens |-> user.total_tokens + tokens,
                 tokens_by_platform |->
                    DictSet(<<>>, token_metrics.platform,
                            DictGet(user.tokens_by_platform, token_metrics.platform, 0) + tokens),
                 tokens_by_role |->
                    DictSet(user.tokens_by_role, role,
                            DictGet(user.tokens_by_role, role, 0) + tokens),
                 daily_tokens |->
                    DictSet(user.daily_tokens, day,
                            DictGet(user.daily_tokens, day, 0) + tokens)]]

\* Faulty variant: the total is set to the tokens of the message.
update_user_token_count_replace(cache, wallet, token_metrics, role, day) ==
    IF wallet \notin DOMAIN cache THEN cache
    ELSE LET user == cache[wallet]
             tokens == token_metrics.total_tokens
         IN  [cache EXCEPT ![wallet] =
                [total_tokens |-> tokens,
                 tokens_by_platform |->
                    DictSet(user.tokens_by_platform, token_metrics.platform,
                            DictGet(user.tokens_by_platform, token_metrics.platform, 0) + tokens),
                 tokens_by_role |->
                    DictSet(user.tokens_by_role, role,
                            DictGet(user.tokens_by_role, role, 0) + tokens),
                 daily_tokens |->
                    DictSet(user.daily_tokens, day,
                            DictGet(user.daily_tokens, day, 0) + tokens)]]

\* update_user_token_count: nothing for a wallet that is not in the cache,
\* else the four additive updates.  It has no await: it is one step.
update_user_token_count(cache, wallet, token_metrics, role, day) ==
    IF wallet \notin DOMAIN cache THEN cache
    ELSE LET user == cache[wallet]
             tokens == token_metrics.total_tokens
         IN  [cache EXCEPT ![wallet] =
                [total_tokens |-> user.total_tokens + tokens,
                 tokens_by_platform |->
                    DictSet(user.tokens_by_platform, token_metrics.platform,
                            DictGet(user.tokens_by_platform, token_metrics.platform, 0) + tokens),
                 tokens_by_role |->
                    DictSet(user.tokens_by_role, role,
                            DictGet(user.tokens_by_role, role, 0) + tokens),
                 daily_tokens |->
                    DictSet(user.daily_tokens, day,
                            DictGet(user.daily_tokens, day, 0) + tokens)]]

\* A store_message call that has ended keeps no locals.
Ended(outcome, stored) ==
    [pc |-> outcome, wallet |-> NoOne, platform |-> "none", role |-> "none",
     tokens |-> 0, stored |-> stored]

\* store_message up to its first suspension (get_embedding): the user is
\* found or created, the tokens of the text are counted.
StoreMessageStart ==
    \E wallet \in Wallets, platform \in Platforms, role \in Roles, tokens \in TokenCounts :
        /\ Len(stores) < MaxRequests
        /\ user_cache' = IF find_user_by_wallet(user_cache, wallet) THEN user_cache
                         ELSE create_user(user_cache, wallet)
        /\ stores' = Append(stores, [pc |-> "embed", wallet |-> wallet,
                                      platform |-> platform, role |-> role,
                                      tokens |-> tokens, stored |-> FALSE])
        /\ UNCHANGED <<returned_tokens, today, counted_tokens, estimate_call, cacheVars, earnVars, now, queueVars, statsVars>>

\* store_message from the return of the embeddings to its own return:
\* conversations_table.add succeeds or raises; update_user_token_count
\* follows it inside the same try, whose except branch only prints.  The
\* rest (earnings, session, daily keys) leaves the token counters alone and
\* the call returns success with token_count.
StoreMessageFinish ==
    \E i \in 1..Len(stores), stored \in BOOLEAN :
        /\ stores[i].pc = "embed"
        /\ user_cache' =
              IF stored
              THEN update_user_token_count(user_cache, stores[i].wallet,
                        [platform |-> stores[i].platform,
                         total_tokens |-> stores[i].tokens],
                        stores[i].role, today)
              ELSE user_cache
        /\ returned_tokens' = [returned_tokens EXCEPT ![stores[i].wallet] = @ + stores[i].tokens]
        /\ counted_tokens' =
              IF stored /\ stores[i].wallet \in DOMAIN user_cache
              THEN [counted_tokens EXCEPT ![stores[i].wallet] = @ + stores[i].tokens]
              ELSE counted_tokens
        /\ stores' = [stores EXCEPT ![i] = Ended("returned", stored)]
        /\ UNCHANGED <<today, estimate_call, cacheVars, earnVars, now, queueVars, statsVars>>

\* register_wallet and the /v1/stats endpoint: a wallet that
\* find_user_by_wallet does not find gets a user record.
EnsureUser ==
    \E wallet \in Wallets :
        /\ ~ find_user_by_wallet(user_cache, wallet)
        /\ user_cache' = create_user(user_cache, wallet)
        /\ UNCHANGED <<stores, returned_tokens, today, counted_tokens, estimate_call, cacheVars, earnVars, now, queueVars, statsVars>>

NextDay ==
    /\ today < MaxDay
    /\ today' = today + 1
    /\ UNCHANGED <<user_cache, stores, returned_tokens, counted_tokens, estimate_call, cacheVars, earnVars, now, queueVars, statsVars>>

NextAccrual ==
    \/ StoreMessageStart
    \/ StoreMessageFinish
    \/ EnsureUser
    \/ NextDay

SpecAccrual == Init /\ [][NextAccrual]_vars

----------------------------------------------------------------------------
(* _estimate_earnings.  Amounts are counted in ten-thousandths, the four   *)
(* decimals of the string the function returns; a Python number is kept    *)
(* with the type that carries it.                                          *)

BasisPoints == 10000      \* "action_reward[1] / 10000"

BaseAmounts == {1, 2, 5}            \* action['base_amount']
QualityTenths == {5, 8}             \* action['quality_score'], in tenths
BaseRewards == {0, 10}              \* action_reward[0], in units of 10^18 wei
MultiplierPoints == {10000, 15000}  \* action_reward[1]

Number(kind, v) == [kind |-> kind, v |-> v]

\* Web3.from_wei(number, 'ether'): the int 0 for 0, else a Decimal.
from_wei(number) ==
    IF number = 0 THEN Number("int", 0) ELSE Number("Decimal", number * BasisPoints)

\* a * b in Python: a Decimal and a float do not multiply (TypeError); a
\* float with an int or a float gives a float.
Times(a, b) ==
    IF "TypeError" \in {a.kind, b.kind} \/ {a.kind, b.kind} = {"Decimal", "float"}
    THEN Number("TypeError", 0)
    ELSE Number(IF "float" \in {a.kind, b.kind} THEN "float"
                ELSE IF "Decimal" \in {a.kind, b.kind} THEN "Decimal" ELSE "int",
                (a.v * b.v) \div BasisPoints)

\* 1 + quality_score
OnePlus(quality) == Number("float", BasisPoints + quality * (BasisPoints \div 10))

\* The except branch: base_amount * (1 + quality_score), four decimals.
FallbackEstimate(base_amount, quality) ==
    Times(Number("int", base_amount * BasisPoints), OnePlus(quality)).v

\* _estimate_earnings: readable says whether the read of actionRewards
\* returned the pair (base_reward, multiplier) or raised.  A type that is no
\* key of ACTION_TYPES raises KeyError inside the try.
estimate_earnings(action_type, base_amount, quality, readable, base_reward, multiplier) ==
    IF action_type \notin ActionTypes \/ ~ readable
    THEN FallbackEstimate(base_amount, quality)
    ELSE LET estimated == Times(Times(from_wei(base_reward), Number("float", multiplier)),
                                OnePlus(quality))
         IN  IF estimated.kind = "TypeError"
             THEN FallbackEstimate(base_amount, quality)
             ELSE estimated.v

\* The keys of the dict queue_action returns once the estimate is made; the
\* estimate is the string under 'estimated_earnings' and nothing else.
QueuedReplyKeys == {"status", "action_id", "estimated_earnings", "position_in_queue"}

EstimateEarnings ==
    \E action_type \in ActionTypes \cup UnknownTypes, base_amount \in BaseAmounts,
       quality \in QualityTenths, readable \in BOOLEAN,
       base_reward \in BaseRewards, multiplier \in MultiplierPoints :
        /\ estimate_call' =
              [op |-> "estimate_earnings", action_type |-> action_type,
               base_amount |-> base_amount, quality |-> quality, readable |-> readable,
               base_reward |-> base_reward, multiplier |-> multiplier,
               returned |-> estimate_earnings(action_type, base_amount, quality,
                                              readable, base_reward, multiplier),
               reply_status |-> "queued", reply_keys |-> QueuedReplyKeys]
        /\ UNCHANGED <<accrualVars, cacheVars, earnVars, now, queueVars, statsVars>>

NextEstimate == EstimateEarnings

SpecEstimate == Init /\ [][NextEstimate]_vars

----------------------------------------------------------------------------
(* The cache store: FallbackRedisClient in front of UpstashRedis.  A call  *)
(* of the remote store ends in one of three ways: status 200 ("ok"), any   *)
(* other status ("refused"), or an exception of the HTTP client ("raised").*)

MaxCacheTime == 3     \* last tick of the clock in the cache specification

RemoteOutcomes == {"ok", "refused", "raised"}

\* The remote store holds the key and its time to live has not run out.
RemoteLive(key, t) ==
    /\ redis_client.remote[key].value # None
    /\ \A e \in redis_client.remote[key].expires : t < e

\* UpstashRedis.get: the value under status 200, None otherwise.
RemoteGet(key, outcome) ==
    IF outcome = "ok" /\ RemoteLive(key, now) THEN redis_client.remote[key].value ELSE None

\* The remote store after SET key value [EX ex]; ex = 0 stands for ex=None.
RemoteSet(key, value, ex) ==
    [redis_client.remote EXCEPT
        ![key] = [value |-> value, expires |-> IF ex > 0 THEN {now + ex} ELSE {}]]

\* The remote store after EXPIRE key seconds: a key it holds gets the expiry.
RemoteExpire(key, seconds) ==
    IF RemoteLive(key, now)
    THEN [redis_client.remote EXCEPT ![key].expires = {now + seconds}]
    ELSE redis_client.remote

\* The call goes to the remote store and its outcome is returned.
ViaRedis(outcome) == redis_client.redis_available /\ outcome # "raised"

\* FallbackRedisClient.__init__: Redis is configured or it is not.
CreateCache ==
    \E configured \in BOOLEAN :
        /\ ~ redis_client.created
        /\ redis_client' = [redis_client EXCEPT !.created = TRUE,
                                                !.redis_available = configured]
        /\ UNCHANGED <<memory_store, cache_call, accrualVars, estimate_call,
                       earnVars, now, queueVars, statsVars>>

\* "self.memory_store[key] = value": ex is not used.
MemorySet(key, value, ex) == [memory_store EXCEPT ![key] = value]

\* The deadlines the callers have asked for, per key, after a set with ex
\* or an expire of the key.
DeadlineOfSet(key, ex) ==
    [cache_call.deadline EXCEPT ![key] = IF ex > 0 THEN {now + ex} ELSE {}]

\* FallbackRedisClient.set(key, value, ex)
CacheSet ==
    \E key \in CacheKeys, value \in CacheValues, ex \in TTLs \cup {0},
       outcome \in RemoteOutcomes :
        /\ redis_client.created
        /\ IF ViaRedis(outcome)
           THEN /\ redis_client' =
                     IF outcome = "ok"
                     THEN [redis_client EXCEPT !.remote = RemoteSet(key, value, ex)]
                     ELSE redis_client
                /\ cache_call' = [op |-> "set", key |-> key,
                                  result |-> IF outcome = "ok" THEN "True" ELSE "False",
                                  at |-> now,
                                  deadline |-> IF outcome = "ok" THEN DeadlineOfSet(key, ex)
                                               ELSE cache_call.deadline,
                                  written |-> IF outcome = "ok"
                                              THEN [cache_call.written EXCEPT ![key] = value]
                                              ELSE cache_call.written]
                /\ UNCHANGED memory_store
           ELSE /\ memory_store' = MemorySet(key, value, ex)
                /\ cache_call' = [op |-> "set", key |-> key, result |-> "True",
                                  at |-> now, deadline |-> DeadlineOfSet(key, ex),
                                  written |-> [cache_call.written EXCEPT ![key] = value]]
                /\ UNCHANGED redis_client
        /\ UNCHANGED <<accrualVars, estimate_call, earnVars,
                       now, queueVars, statsVars>>

\* FallbackRedisClient.expire(key, seconds): the in-memory store is left alone.
CacheExpire ==
    \E key \in CacheKeys, seconds \in TTLs, outcome \in RemoteOutcomes :
        /\ redis_client.created
        /\ redis_client' =
              IF ViaRedis(outcome) /\ outcome = "ok"
              THEN [redis_client EXCEPT !.remote = RemoteExpire(key, seconds)]
              ELSE redis_client
        /\ cache_call' = [op |-> "expire", key |-> key,
                          result |-> IF ViaRedis(outcome) /\ outcome = "refused"
                                     THEN "False" ELSE "True",
                          at |-> now,
                          deadline |-> IF ViaRedis(outcome) /\ outcome = "refused"
                                       THEN cache_call.deadline
                                       ELSE DeadlineOfSet(key, seconds),
                          written |-> cache_call.written]
        /\ UNCHANGED <<memory_store, accrualVars, estimate_call, earnVars,
                       now, queueVars, statsVars>>

\* FallbackRedisClient.get(key)
CacheGet ==
    \E key \in CacheKeys, outcome \in RemoteOutcomes :
        /\ redis_client.created
        /\ cache_call' = [op |-> "get", key |-> key,
                          result |-> IF ViaRedis(outcome) THEN RemoteGet(key, outcome)
                                     ELSE memory_store[key],
                          at |-> now, deadline |-> cache_call.deadline,
                          written |-> cache_call.written]
        /\ UNCHANGED <<redis_client, memory_store, accrualVars, estimate_call,
                       earnVars, now, queueVars, statsVars>>

TickCache == Advance(MaxCacheTime)

NextCache ==
    \/ TickCache
    \/ CreateCache
    \/ CacheSet
    \/ CacheExpire
    \/ CacheGet

SpecCache == Init /\ [][NextCache]_vars

----------------------------------------------------------------------------
(* update_wallet_earnings_cache: get, add, set on the key earnings:{wallet} *)
(* The value of the key is the text of a number; amounts are counted in    *)
(* whole units.                                                            *)

MaxEarnCalls == 2     \* update_wallet_earnings_cache calls
EarningsTTL == 60     \* "ex=3600", in ticks

EarnAmounts == {1, 2}
EarnKey == "earnings:w1"

\* str(new_total) for the totals the calls can reach
NumberTexts == <<"0.0", "1.0", "2.0", "3.0", "4.0", "5.0", "6.0">>
str(number) == NumberTexts[number + 1]

\* float(current or 0)
float_or_0(current) ==
    IF current = None THEN 0
    ELSE (CHOOSE k \in 1..Len(NumberTexts) : NumberTexts[k] = current) - 1

\* What a get of the key returns when the store it goes to answers.
CachedValue(key) ==
    IF redis_client.redis_available THEN RemoteGet(key, "ok") ELSE memory_store[key]

\* The call up to its first suspension.  With Redis configured that is the
\* HTTP request of the get.  Without it neither get nor set suspends: the
\* call reads the dict, adds and writes it in one piece.
UpdateEarningsStart ==
    \E amount \in EarnAmounts :
        /\ redis_client.created
        /\ Len(earn_calls) < MaxEarnCalls
        /\ IF redis_client.redis_available
           THEN /\ earn_calls' = Append(earn_calls,
                        [pc |-> "get", amount |-> amount, new_total |-> 0, answered |-> TRUE])
                /\ UNCHANGED memory_store
           ELSE /\ memory_store' =
                     MemorySet(EarnKey, str(float_or_0(memory_store[EarnKey]) + amount),
                               EarningsTTL)
                /\ earn_calls' = Append(earn_calls,
                        [pc |-> "done", amount |-> amount,
                         new_total |-> float_or_0(memory_store[EarnKey]) + amount,
                         answered |-> TRUE])
        /\ UNCHANGED <<redis_client, cache_call, referral_calls, today_earnings, accrualVars,
                       estimate_call, now, queueVars, statsVars>>

\* "new_total = float(current or 0) + amount"
NewTotal(current, amount) == float_or_0(current) + amount

\* The get returns: the remote value, None for another status, the dict's
\* value when the request raised.  The call is then suspended in the HTTP
\* request of the set.
UpdateEarningsGet ==
    \E i \in 1..Len(earn_calls), outcome \in RemoteOutcomes :
        /\ earn_calls[i].pc = "get"
        /\ earn_calls' = [earn_calls EXCEPT ![i] =
              [pc |-> "set", amount |-> earn_calls[i].amount,
               new_total |-> NewTotal(IF outcome = "raised" THEN memory_store[EarnKey]
                                      ELSE RemoteGet(EarnKey, outcome),
                                      earn_calls[i].amount),
               answered |-> outcome = "ok"]]
        /\ UNCHANGED <<cacheVars, referral_calls, today_earnings, accrualVars, estimate_call, now,
                       queueVars, statsVars>>

\* The set returns: written remotely, refused, or written into the dict
\* when the request raised.  The call ends.
UpdateEarningsSet ==
    \E i \in 1..Len(earn_calls), outcome \in RemoteOutcomes :
        /\ earn_calls[i].pc = "set"
        /\ redis_client' =
              IF outcome = "ok"
              THEN [redis_client EXCEPT
                        !.remote = RemoteSet(EarnKey, str(earn_calls[i].new_total),
                                             EarningsTTL)]
              ELSE redis_client
        /\ memory_store' =
              IF outcome = "raised"
              THEN MemorySet(EarnKey, str(earn_calls[i].new_total), EarningsTTL)
              ELSE memory_store
        /\ earn_calls' = [earn_calls EXCEPT ![i].pc = "done",
                                            ![i].answered = @ /\ outcome = "ok"]
        /\ UNCHANGED <<cache_call, referral_calls, today_earnings, accrualVars, estimate_call, now,
                       queueVars, statsVars>>

NextEarnings ==
    \/ CreateCache
    \/ UpdateEarningsStart
    \/ UpdateEarningsGet
    \/ UpdateEarningsSet

SpecEarnings == Init /\ [][NextEarnings]_vars

----------------------------------------------------------------------------
(* record_referral, call by call: the check of users.referred_by, the send *)
(* of the recordReferral transaction, the update of users and the bonus.   *)
(* The call is suspended in find_one, in the gas price and in update_one.  *)

MaxReferralCalls == 2     \* record_referral calls

\* find_one has returned: a referee with a referrer ends the call with
\* status error; otherwise the nonce is read and the call waits for the gas
\* price.
ReferralStart ==
    \E referrer \in QueueWallets, referee \in Wallets :
        /\ Initialized
        /\ Len(referral_calls) < MaxReferralCalls
        /\ referral_calls' = Append(referral_calls,
              [pc |-> IF referred_by[referee] # NoOne THEN "error" ELSE "gas",
               referrer |-> referrer, referee |-> referee,
               saw_referrer |-> referred_by[referee] # NoOne,
               nonce |-> get_transaction_count])
        /\ UNCHANGED <<earn_calls, today_earnings, cacheVars, accrualVars, estimate_call,
                       now, queueVars, statsVars>>

\* The transaction is signed and sent.  The node takes it when its nonce is
\* neither mined nor that of a transaction it already holds; otherwise, or
\* when the node cannot be reached, the send raises and the call ends.
ReferralSend ==
    \E i \in 1..Len(referral_calls), ok \in BOOLEAN :
        /\ referral_calls[i].pc = "gas"
        /\ ok => NodeCanAccept(referral_calls[i].nonce)
                    /\ referral_calls[i].nonce \notin mempool
        /\ mempool' = IF ok THEN mempool \cup {referral_calls[i].nonce} ELSE mempool
        /\ referral_calls' = [referral_calls EXCEPT
                                ![i].pc = IF ok THEN "update" ELSE "raised"]
        /\ UNCHANGED <<earn_calls, today_earnings, cacheVars, accrualVars, estimate_call, now, loops,
                       running, proc, pending_actions, action_status,
                       pending_contributions, txCount, signed, inflight, referred_by,
                       lastCall, statsVars>>

\* update_one has returned: users.referred_by is set, the REFERRAL bonus of
\* the referrer goes through queue_action and the call returns success.
ReferralFinish ==
    \E i \in 1..Len(referral_calls) :
        /\ referral_calls[i].pc = "update"
        /\ referred_by' = [referred_by EXCEPT
                                ![referral_calls[i].referee] = referral_calls[i].referrer]
        /\ QueueEffect(referral_calls[i].referrer, "REFERRAL")
        /\ lastCall' = Returned("record_referral", "success", referral_calls[i].referee)
        /\ referral_calls' = [referral_calls EXCEPT ![i].pc = "success"]
        /\ UNCHANGED <<earn_calls, today_earnings, cacheVars, accrualVars, estimate_call, now, loops,
                       running, proc, action_status, txCount, mempool, signed, inflight,
                       statsVars>>

NextReferral ==
    \/ Initialize
    \/ ReferralStart
    \/ ReferralSend
    \/ ReferralFinish
    \/ Mine

SpecReferral == Init /\ [][NextReferral]_vars

----------------------------------------------------------------------------
(* The day's earnings of a wallet: store_message computes the earned       *)
(* amount of a message and counts the message under                        *)
(* earnings:{wallet}:{date}; the stats read turns that counter into the    *)
(* message part of todayEarnings.  Amounts are in ten-thousandths of a     *)
(* token, within one day and within the seven days the counter is kept.    *)

MaxTodayMessages == 2       \* store_message calls of the day

BaseRate == 10              \* "base_rate = 0.001"
QualityMultiplierTenths == 15   \* "quality_multiplier = 1.5 if token_count > 100"
ArtifactBonus == 5          \* "artifact_bonus = 0.0005"
MessageRate == 10           \* "float(message_earnings) * 0.001"

\* The text of a counter, as GET returns it and as the dict holds it
CountTexts == <<"0", "1", "2", "3", "4">>
CountText(n) == CountTexts[n + 1]

\* int(value or "0") and float(value or "0") of a counter's text
CountOf(text) ==
    IF text = None THEN 0
    ELSE (CHOOSE k \in 1..Len(CountTexts) : CountTexts[k] = text) - 1

\* "earned = (base_rate * quality_multiplier) + artifact_bonus"
Earned(long, artifacts) ==
    (BaseRate * (IF long THEN QualityMultiplierTenths ELSE 10)) \div 10
        + (IF artifacts THEN ArtifactBonus ELSE 0)

\* The remote store after INCR key
RemoteIncr(key) ==
    [redis_client.remote EXCEPT
        ![key] = [value |-> CountText(CountOf(RemoteGet(key, "ok")) + 1),
                  expires |-> IF RemoteLive(key, now) THEN @.expires ELSE {}]]

\* FallbackRedisClient.incr on the dict
MemoryIncr(key) == [memory_store EXCEPT ![key] = CountText(CountOf(@) + 1)]

\* store_message from the earnings to its return: the earned amount of the
\* message (long: token_count > 100) is returned and the day's counter of
\* the wallet is incremented through the cache client.
TodayStore ==
    \E long \in BOOLEAN, artifacts \in BOOLEAN, outcome \in RemoteOutcomes :
        /\ redis_client.created
        /\ today_earnings.messages < MaxTodayMessages
        /\ IF ViaRedis(outcome)
           THEN /\ redis_client' = IF outcome = "ok"
                                   THEN [redis_client EXCEPT !.remote = RemoteIncr(TodayKey)]
                                   ELSE redis_client
                /\ UNCHANGED memory_store
           ELSE /\ memory_store' = MemoryIncr(TodayKey)
                /\ UNCHANGED redis_client
        /\ today_earnings' =
              [today_earnings EXCEPT
                  !.messages = @ + 1,
                  !.earned = @ + Earned(long, artifacts),
                  !.answered = @ /\ (redis_client.redis_available => outcome = "ok"),
                  !.read = FALSE]
        /\ UNCHANGED <<cache_call, earn_calls, referral_calls, accrualVars, estimate_call,
                       now, queueVars, statsVars>>

\* The stats read: "message_earnings = await redis_client.get(message_key)
\* or '0'" and the message part float(message_earnings) * 0.001.
TodayStats ==
    \E outcome \in RemoteOutcomes :
        /\ redis_client.created
        /\ today_earnings' =
              [today_earnings EXCEPT
                  !.read = TRUE,
                  !.read_answered = redis_client.redis_available => outcome = "ok",
                  !.message_part =
                      CountOf(IF ViaRedis(outcome) THEN RemoteGet(TodayKey, outcome)
                              ELSE memory_store[TodayKey]) * MessageRate]
        /\ UNCHANGED <<cacheVars, earn_calls, referral_calls, accrualVars, estimate_call,
                       now, queueVars, statsVars>>

NextToday ==
    \/ CreateCache
    \/ TodayStore
    \/ TodayStats

SpecToday == Init /\ [][NextToday]_vars

----------------------------------------------------------------------------
(* Claims about the queue, the processor and the signer *)

BatchTx(k) == signed[k].by = "batch"

\* Two transactions the node accepted under different nonces: both settle.
BothSettle(j, k) ==
    /\ signed[j].ok /\ signed[k].ok
    /\ signed[j].nonce # signed[k].nonce

\* C1: when queue_action is called for a logical event (wallet, action type,
\* time bucket) that was queued before, the call returns already_processed,
\* and no two settlements are ever made for one logical event.
C1_SecondCallAlreadyProcessed ==
    /\ (lastCall.op = "queue_action" /\ lastCall.repeat)
            => lastCall.status = "already_processed"
    /\ \A j, k \in 1..Len(signed) :
            (j < k /\ BatchTx(j) /\ BatchTx(k) /\ BothSettle(j, k))
                => ~ ( /\ signed[j].aid[1] = signed[k].aid[1]
                       /\ signed[j].aid[2] = signed[k].aid[2]
                       /\ Bucket(signed[j].aid[3]) = Bucket(signed[k].aid[3]) )

\* C2: for every action_id at most one ledger transaction is ever
\* successfully submitted: an action submitted in one cycle is not submitted
\* again in a later cycle.
C2_AtMostOneSettlement ==
    \A j, k \in 1..Len(signed) :
        (j < k /\ BatchTx(j) /\ BatchTx(k) /\ signed[j].aid = signed[k].aid
               /\ signed[j].batch # signed[k].batch)
            => ~ BothSettle(j, k)

FailedAttempts(aid) ==
    Cardinality({k \in 1..Len(signed) : BatchTx(k) /\ signed[k].aid = aid /\ ~ signed[k].ok})

AcceptedAttempts(aid) ==
    Cardinality({k \in 1..Len(signed) : BatchTx(k) /\ signed[k].aid = aid /\ signed[k].ok})

\* C3: an action whose submission fails on every attempt is attempted
\* exactly 3 times: never more than 3 attempts, and it is abandoned only
\* after its third failed attempt, with retry_count = 3.
C3_AbandonedAfterExactlyThree ==
    \A r \in 1..Len(pending_actions) :
        LET row == pending_actions[r]
        IN  AcceptedAttempts(row.action_id) = 0
                => /\ FailedAttempts(row.action_id) <= MaxRetries
                   /\ row.status = "abandoned"
                        => /\ FailedAttempts(row.action_id) = MaxRetries
                           /\ row.retry_count = MaxRetries

\* The first transaction of the batch that transaction k belongs to.
FirstOfBatch(k) ==
    CHOOSE f \in 1..k :
        /\ BatchTx(f) /\ signed[f].batch = signed[k].batch
        /\ \A g \in 1..(f - 1) : ~ (BatchTx(g) /\ signed[g].batch = signed[k].batch)

AcceptedBefore(k) ==
    Cardinality({j \in 1..(k - 1) :
                    BatchTx(j) /\ signed[j].batch = signed[k].batch /\ signed[j].ok})

\* C4: within one settlement batch the nonces used are n, n+1, ..., n+K-1 in
\* submission order, across the action-type groups of the batch: each
\* transaction carries the batch's first nonce plus the number of
\* transactions of the batch submitted before it.
C4_BatchNoncesConsecutive ==
    \A k \in 1..Len(signed) :
        BatchTx(k) => signed[k].nonce = signed[FirstOfBatch(k)].nonce + AcceptedBefore(k)

\* C5: no transaction of the backend signer carries the nonce of another
\* one that the node has accepted, whoever signed it: the batch,
\* record_referral or grant_achievement.
C5_NoncesNeverReused ==
    \A j, k \in 1..Len(signed) :
        (j < k /\ signed[j].ok) => signed[j].nonce # signed[k].nonce

\* C6: at most one settlement batch is in progress at any time: one batch
\* processor loop per service, and no cycle starts during a batch.
C6_OneBatchAtATime ==
    /\ loops <= 1
    /\ running <= 1

\* C6 witness: the batch of a second cycle is in progress.
C6_Witness ==
    /\ running = 1
    /\ proc.batch >= 2
    /\ proc.pc = "update"

----------------------------------------------------------------------------
(* Claims about the statistics cache *)

Finished == lastStats.outcome # "none"

\* C7: a get_user_stats call made while an unexpired entry of the wallet
\* exists performs no ledger read and returns the statistics of that entry,
\* the ones the call that wrote it returned.
C7_SecondCallServedFromCache ==
    (Finished /\ lastStats.fresh)
        => /\ lastStats.outcome = "ok"
           /\ lastStats.reads = 0
           /\ \E r \in user_stats_cache :
                /\ r.wallet = lastStats.wallet
                /\ r.cache_expiry > lastStats.at
                /\ r.total_earned = lastStats.value

C9_NeverServedPastExpiry ==
    Finished
        => /\ lastStats.source = "cache" => lastStats.fresh
           /\ ~ lastStats.fresh => (lastStats.reads >= 1 /\ lastStats.source = "ledger")

\* C9 witness: a call that ended at the very tick an older entry expires
\* went to the ledger.
C9_Witness ==
    /\ lastStats.source = "ledger"
    /\ lastStats.reads = 1
    /\ \E call \in {lastStats} : \E r \in user_stats_cache :
            /\ r.wallet = call.wallet
            /\ r.cache_expiry = call.at
            /\ r.last_updated < call.at

\* C10: when get_user_stats finds no entry of the wallet and the ledger
\* read fails, the call ends with the error and writes no entry.
C10_LedgerFailureSurfaced ==
    (Finished /\ ~ lastStats.known /\ lastStats.reads = 1 /\ ~ lastStats.ledger_ok)
        => /\ lastStats.outcome = "LedgerError"
           /\ ~ lastStats.wrote

\* C10 witness: the call failed and the cache still has no entry of the wallet.
C10_Witness ==
    /\ lastStats.outcome = "LedgerError"
    /\ ~ lastStats.known
    /\ ~ HasEntry(lastStats.wallet)

----------------------------------------------------------------------------
(* queue_action: validation, the dual write, the already-processed path *)

\* A queue_action call has just returned or raised: lastCall is rewritten
\* by this step, or a store of the queue grew.
QueueCallStep ==
    /\ lastCall'.op = "queue_action"
    /\ \/ lastCall' # lastCall
       \/ Len(pending_actions') > Len(pending_actions)
       \/ Len(pending_contributions') > Len(pending_contributions)

\* C11: a queue_action call whose wallet is malformed or whose action_type
\* is outside the enumeration raises, and no row and no deque entry ever
\* carries such a wallet or such a type.
C11_InvalidInputRejected ==
    /\ (lastCall.op = "queue_action"
            /\ (~ is_address(lastCall.wallet) \/ lastCall.action_type \notin ActionTypes))
        => lastCall.status = "raised"
    /\ \A k \in 1..Len(pending_actions) :
            /\ is_address(pending_actions[k].user_wallet)
            /\ pending_actions[k].action_type \in ActionTypes

\* C12: a queue_action call that returns 'queued' has added exactly one row
\* to pending_actions, with the returned action_id, status pending and
\* retry_count 0, and exactly one entry with the same action_id to the
\* in-memory deque.
C12_QueuedMeansDualWrite ==
    [][(QueueCallStep /\ lastCall'.status = "queued")
        => \E aid \in {generate_action_id(lastCall'.wallet, lastCall'.action_type,
                                           lastCall'.at)} :
            /\ Len(pending_actions') = Len(pending_actions) + 1
            /\ SubSeq(pending_actions', 1, Len(pending_actions)) = pending_actions
            /\ pending_actions'[Len(pending_actions')].action_id = aid
            /\ pending_actions'[Len(pending_actions')].status = "pending"
            /\ pending_actions'[Len(pending_actions')].retry_count = 0
            /\ pending_contributions' = Append(pending_contributions, aid)]_vars

\* C12 witness: two calls returned 'queued' and both stores hold two entries.
C12_Witness ==
    /\ lastCall.op = "queue_action"
    /\ lastCall.status = "queued"
    /\ Len(pending_actions) = 2
    /\ Len(pending_contributions) = 2

\* action_status holds the id with status confirmed or processing.
SettlementRecorded(aid) ==
    \E a \in DOMAIN action_status :
        a = aid /\ action_status[a].status \in {"confirmed", "processing"}

\* C13: when action_status already holds the derived action_id as confirmed
\* or processing, queue_action returns 'already_processed' and neither
\* pending_actions nor the deque changes.
C13_AlreadyProcessedWritesNothing ==
    [][(QueueCallStep /\ lastCall'.status # "raised"
            /\ SettlementRecorded(generate_action_id(lastCall'.wallet,
                                                     lastCall'.action_type, lastCall'.at)))
        => /\ lastCall'.status = "already_processed"
           /\ UNCHANGED <<pending_actions, pending_contributions>>]_vars

\* C13 witness: a call returned 'already_processed' for an id in processing.
C13_Witness ==
    /\ lastCall.op = "queue_action"
    /\ lastCall.status = "already_processed"
    /\ SettlementRecorded(generate_action_id(lastCall.wallet, lastCall.action_type,
                                             lastCall.at))

----------------------------------------------------------------------------
(* The state machine of a ContributionAction *)

\* The status the service holds for the action of a row: abandoned once the
\* row says so, else the status of its action_status document when there is
\* one, else the row's status.
StatusOf(row, docs) ==
    IF row.status = "abandoned" THEN "abandoned"
    ELSE IF row.action_id \in DOMAIN docs THEN docs[row.action_id].status
    ELSE row.status

\* The edges of the state machine; a retry_count that grows by one while the
\* action stays pending is let through.
AllowedChange(s, r, s2, r2) ==
    \/ s2 = s /\ r2 = r
    \/ s = "pending" /\ s2 = "pending" /\ r2 = r + 1
    \/ s = "pending" /\ s2 = "processing" /\ r2 = r
    \/ s = "processing" /\ s2 = "confirmed" /\ r2 = r
    \/ s = "processing" /\ s2 = "pending" /\ r2 = r + 1
    \/ s = "pending" /\ s2 = "abandoned" /\ r2 >= MaxRetries /\ r2 \in {r, r + 1}

\* C14: the status of an action changes only from pending to processing,
\* from processing to confirmed, from processing to pending with
\* retry_count one higher, and from pending to abandoned when retry_count
\* has reached 3; a confirmed or abandoned action never changes again.
C14_StatusFollowsStateMachine ==
    [][\A k \in 1..Len(pending_actions) :
          AllowedChange(StatusOf(pending_actions[k], action_status),
                        pending_actions[k].retry_count,
                        StatusOf(pending_actions'[k], action_status'),
                        pending_actions'[k].retry_count)]_vars

\* The batch ends with this step.
BatchEnds == proc.pc \in {"gas", "update"} /\ proc'.pc = "sleep"

\* The batch signed a transaction for the action.
Attempted(txs, batch, aid) ==
    \E t \in 1..Len(txs) :
        txs[t].by = "batch" /\ txs[t].batch = batch /\ txs[t].aid = aid

\* C15: when a submission of the cycle has raised, every action of the
\* cycle's groups has still been attempted by the time the cycle's batch ends.
C15_FailureDoesNotAbortBatch ==
    [][(BatchEnds /\ \E t \in 1..Len(signed') :
                        /\ signed'[t].by = "batch"
                        /\ signed'[t].batch = proc.batch
                        /\ ~ signed'[t].ok)
        => \A g \in 1..Len(proc.groups) :
              CanPrepare(pending_actions, proc.groups[g])
                => \A j \in 1..Len(proc.groups[g]) :
                      Attempted(signed', proc.batch, proc.groups[g][j])]_vars

\* The action of a row has reached a terminal state.
Terminal(row) == StatusOf(row, action_status) \in {"confirmed", "abandoned"}

\* C16: every action queue_action has created reaches confirmed or
\* abandoned, the processor being scheduled again and again and every
\* submission ending in success or failure.
C16_EveryActionSettles ==
    \A k \in 1..MaxRows :
        [](Len(pending_actions) >= k
            => <>(Len(pending_actions) >= k /\ Terminal(pending_actions[k])))

----------------------------------------------------------------------------
(* Claims about the token counters *)

\* Entry k of a counter map is the same in both maps, present or absent.
SameEntry(old, new, k) ==
    /\ k \in DOMAIN new <=> k \in DOMAIN old
    /\ k \in DOMAIN old => new[k] = old[k]

\* Entry k of the new map is the old entry, or 0 when there was none, plus t.
EntryPlus(old, new, k, t) ==
    /\ k \in DOMAIN new
    /\ new[k] = (IF k \in DOMAIN old THEN old[k] ELSE 0) + t

\* Call i of store_message runs update_user_token_count in this step.
AccrualStep(i) ==
    /\ stores[i].pc = "embed"
    /\ stores'[i].pc = "returned"
    /\ stores'[i].stored

\* C17: an accrual of t tokens for wallet W, platform P and role R adds
\* exactly t to W's total, to the P entry of the platform map, to the R entry
\* of the role map and to the bucket of the current day, and leaves every
\* other entry of W and the record of every other wallet as they were.
C17_AccrualAddsExactlyT ==
    [][\A i \in 1..Len(stores) :
          AccrualStep(i)
            => /\ stores[i].wallet \in DOMAIN user_cache
               /\ DOMAIN user_cache' = DOMAIN user_cache
               /\ \A w \in DOMAIN user_cache \ {stores[i].wallet} :
                      user_cache'[w] = user_cache[w]
               /\ \E old \in {user_cache[stores[i].wallet]},
                     new \in {user_cache'[stores[i].wallet]},
                     t \in {stores[i].tokens} :
                      /\ new.total_tokens = old.total_tokens + t
                      /\ EntryPlus(old.tokens_by_platform, new.tokens_by_platform,
                                   stores[i].platform, t)
                      /\ \A p \in Platforms \ {stores[i].platform} :
                            SameEntry(old.tokens_by_platform, new.tokens_by_platform, p)
                      /\ EntryPlus(old.tokens_by_role, new.tokens_by_role,
                                   stores[i].role, t)
                      /\ \A r \in Roles \ {stores[i].role} :
                            SameEntry(old.tokens_by_role, new.tokens_by_role, r)
                      /\ EntryPlus(old.daily_tokens, new.daily_tokens, today, t)
                      /\ \A d \in (0..MaxDay) \ {today} :
                            SameEntry(old.daily_tokens, new.daily_tokens, d)]_vars

\* C17 witness: a wallet with counters on two platforms, accrued while
\* another wallet has a record of its own.
C17_Witness ==
    \E w, v \in DOMAIN user_cache :
        /\ w # v
        /\ DOMAIN user_cache[w].tokens_by_platform = Platforms
        /\ \A p \in Platforms : user_cache[w].tokens_by_platform[p] > 0

\* The total tokens the cache holds for a wallet.
TotalTokens(w) == IF w \in DOMAIN user_cache THEN user_cache[w].total_tokens ELSE 0

\* C18: when a store_message call returns, the wallet's total already holds
\* the token count of the message: the total is never below the sum of the
\* token counts of the calls that returned.
C18_AccruedBeforeReturn ==
    \A w \in Wallets : TotalTokens(w) >= returned_tokens[w]

\* Every entry of the old counter map is in the new one and is not lower.
NotLowered(old, new) ==
    \A k \in DOMAIN old : k \in DOMAIN new /\ new[k] >= old[k]

\* C19: no step lowers a wallet's total, nor a counter of its platform, role
\* or day maps, nor removes its record.
C19_CountersNeverDecrease ==
    [][\A w \in DOMAIN user_cache :
          /\ w \in DOMAIN user_cache'
          /\ user_cache'[w].total_tokens >= user_cache[w].total_tokens
          /\ NotLowered(user_cache[w].tokens_by_platform, user_cache'[w].tokens_by_platform)
          /\ NotLowered(user_cache[w].tokens_by_role, user_cache'[w].tokens_by_role)
          /\ NotLowered(user_cache[w].daily_tokens, user_cache'[w].daily_tokens)]_vars

\* C19 witness: a wallet accrued on two days, the later accrual smaller than
\* the total it was added to.
C19_Witness ==
    \E w \in DOMAIN user_cache :
        /\ DOMAIN user_cache[w].daily_tokens = 0..1
        /\ user_cache[w].daily_tokens[0] = 2
        /\ user_cache[w].daily_tokens[1] = 1
        /\ user_cache[w].total_tokens = 3

----------------------------------------------------------------------------
(* Claims about the estimate *)

\* C20: when the reward pair of the action type is read, the estimate is
\* base_reward * multiplier * (1 + quality_score): 27.0 for base_reward 10,
\* multiplier 1.5 and quality_score 0.8.
C20_EstimateFromConfiguredPair ==
    (estimate_call.op = "estimate_earnings" /\ estimate_call.readable
        /\ estimate_call.action_type \in ActionTypes)
    => /\ estimate_call.returned * 10
            = estimate_call.base_reward * estimate_call.multiplier
                * (10 + estimate_call.quality)
       /\ (estimate_call.base_reward = 10 /\ estimate_call.multiplier = 15000
                /\ estimate_call.quality = 8)
            => estimate_call.returned = 27 * BasisPoints

\* C21: when the read of the reward configuration fails the estimate is
\* base_amount * (1 + quality_score), the reply of queue_action marks it as
\* provisional, and the reply still has status queued.
C21_FallbackEstimateProvisional ==
    (estimate_call.op = "estimate_earnings" /\ ~ estimate_call.readable)
    => /\ estimate_call.returned * 10
            = estimate_call.base_amount * (10 + estimate_call.quality) * BasisPoints
       /\ estimate_call.reply_status = "queued"
       /\ "provisional" \in estimate_call.reply_keys

\* The rows of pending_actions that record a DAILY_CHECKIN of the wallet in
\* the day bucket of time t.
CheckinsOfDay(wallet, t) ==
    {k \in 1..Len(pending_actions) :
        /\ pending_actions[k].user_wallet = wallet
        /\ pending_actions[k].action_type = "DAILY_CHECKIN"
        /\ Bucket(pending_actions[k].queued_at) = Bucket(t)}

\* C22: the first DAILY_CHECKIN of a wallet in a day bucket is queued, every
\* further one in the same bucket replies already_processed, and the bucket
\* never holds two queued check-ins of the wallet.
C22_OneCheckinPerDay ==
    /\ lastCall.op = "process_daily_checkin"
        => lastCall.status = (IF lastCall.repeat THEN "already_processed" ELSE "queued")
    /\ \A wallet \in QueueWallets :
            Cardinality(CheckinsOfDay(wallet, now)) <= 1

\* C23: the wrappers settle only through queue_action: no transaction is
\* signed by grant_achievement or record_referral on the request path, and a
\* call of either that succeeded has queued an action at the time it returned.
C23_WrappersOnlyDelegate ==
    /\ \A k \in 1..Len(signed) : BatchTx(k)
    /\ (lastCall.op \in {"grant_achievement", "record_referral"}
            /\ lastCall.status = "success")
        => \E k \in 1..Len(pending_actions) : pending_actions[k].queued_at = lastCall.at

\* The processor has just signed a transaction that the node refused.
SubmissionFails ==
    /\ Len(signed') = Len(signed) + 1
    /\ signed'[Len(signed')].by = "batch"
    /\ ~ signed'[Len(signed')].ok

\* C24: queue_action is fire-and-forget: no transaction is signed or sent
\* within the call, and a submission that fails later rewrites the reply of
\* no call and changes what no queue_action call would reply.
C24_FireAndForget ==
    [][/\ QueueCallStep => UNCHANGED <<signed, mempool, txCount, action_status>>
       /\ SubmissionFails
            => /\ lastCall' = lastCall
               /\ \A wallet \in QueueWallets, action_type \in ActionTypes :
                      QueueStatus(wallet, action_type)' = QueueStatus(wallet, action_type)]_vars

\* C24 witness: the last queue_action call replied queued and the submission
\* of the action it queued has since failed.
C24_Witness ==
    /\ lastCall.op = "queue_action"
    /\ lastCall.status = "queued"
    /\ \E k \in 1..Len(signed) :
            /\ BatchTx(k)
            /\ ~ signed[k].ok
            /\ signed[k].aid = generate_action_id(lastCall.wallet, lastCall.action_type,
                                                  lastCall.at)

\* C25: an enqueue into an empty queue while the loop sleeps cuts the sleep
\* short: the loop is due before the end of the fixed interval it was in.
C25_EnqueueWakesProcessor ==
    [][(/\ QueueCallStep
        /\ lastCall'.status = "queued"
        /\ LoopReady
        /\ ~ TimerDue
        /\ SelectPending(pending_actions) = <<>>)
       => proc'.wake < proc.wake]_vars

\* C26: an action is marked processing before its transaction is signed and
\* sent: every transaction of the batch that the node accepted belongs to an
\* action whose recorded status is no longer pending.
C26_ProcessingBeforeSubmit ==
    \A k \in 1..Len(signed) :
        (BatchTx(k) /\ signed[k].ok) => SettlementRecorded(signed[k].aid)

\* C27: once the ledger has accepted the submission of an action and the
\* status update of that submission is done, the action is confirmed and its
\* receipt is the transaction of that submission.
C27_AcceptedMeansConfirmed ==
    \A aid \in DOMAIN action_status :
        /\ action_status[aid].status = "confirmed"
        /\ action_status[aid].tx_hash \in 1..Len(signed)
        /\ signed[action_status[aid].tx_hash].aid = aid
        /\ signed[action_status[aid].tx_hash].ok

\* The ids a cycle has just selected: the groups of the batch it starts.
SelectedIds ==
    {proc'.groups[g][j] : <<g, j>> \in
        {p \in (1..Len(proc'.groups)) \X (1..MaxRows) : p[2] <= Len(proc'.groups[p[1]])}}

\* C28: a cycle selects at most 50 actions, each pending with retry_count
\* below 3, and none that is already marked processing, confirmed or
\* abandoned.
C28_OnlyPendingSelected ==
    [][(LoopReady /\ proc'.pc = "gas")
       => /\ Cardinality(SelectedIds) <= BatchLimit
          /\ \A aid \in SelectedIds :
                /\ \E k \in 1..Len(pending_actions) :
                        /\ pending_actions[k].action_id = aid
                        /\ pending_actions[k].status = "pending"
                        /\ pending_actions[k].retry_count < MaxRetries
                /\ ~ SettlementRecorded(aid)]_vars

\* C29: a submission error adds exactly 1 to the retry_count of the action
\* whose submission failed and leaves the row of every other action as it was.
C29_OnlyFailedActionRetried ==
    [][SubmissionFails
       => \A k \in 1..Len(pending_actions) :
            IF pending_actions[k].action_id = signed'[Len(signed')].aid
            THEN pending_actions'[k].retry_count = pending_actions[k].retry_count + 1
            ELSE /\ pending_actions'[k].retry_count = pending_actions[k].retry_count
                 /\ pending_actions'[k].status = pending_actions[k].status]_vars

\* C30: a get of a key returns nothing once the time to live that the last
\* set or expire of the key asked for has elapsed, in either mode of the store.
C30_TTLHonoured ==
    (/\ cache_call.op = "get"
     /\ \E d \in cache_call.deadline[cache_call.key] : cache_call.at >= d)
    => cache_call.result = None

\* C31: pending_actions never holds two rows with the same action_id.
C31_NoDuplicateActionId ==
    \A j, k \in 1..Len(pending_actions) :
        j < k => pending_actions[j].action_id # pending_actions[k].action_id

\* C32: the loop of the batch processor never stops: once started it is
\* asleep or inside a batch, and after an exception of a cycle it is asleep
\* and due again within the delay of its except branch.
C32_LoopNeverStops ==
    /\ Initialized => proc.pc \in {"sleep", "gas", "update"}
    /\ (proc.pc = "sleep" /\ proc.after_error) => proc.wake <= now + ErrorSleepTicks

\* C32 witness: an exception of a cycle has reached the loop, the delay has
\* passed and the loop is due for its next turn with a row to select.
C32_Witness ==
    /\ proc.pc = "sleep"
    /\ proc.after_error
    /\ TimerDue
    /\ SelectPending(pending_actions) # <<>>

\* The sum of the entries of a counter map.
RECURSIVE SumOf(_)
SumOf(d) ==
    IF DOMAIN d = {} THEN 0
    ELSE LET k == CHOOSE x \in DOMAIN d : TRUE
         IN  d[k] + SumOf([x \in DOMAIN d \ {k} |-> d[x]])

\* C33: the total of a user record equals the sum of its platform map, of
\* its role map and of its day map, and equals the sum of the tokens of the
\* update_user_token_count calls made for the wallet.
C33_CountersAgree ==
    \A w \in DOMAIN user_cache :
        /\ user_cache[w].total_tokens = SumOf(user_cache[w].tokens_by_platform)
        /\ user_cache[w].total_tokens = SumOf(user_cache[w].tokens_by_role)
        /\ user_cache[w].total_tokens = SumOf(user_cache[w].daily_tokens)
        /\ user_cache[w].total_tokens = counted_tokens[w]

\* C33 witness: two calls for one wallet, started before either accrued,
\* have both accrued: on two platforms, 3 tokens in all.
C33_Witness ==
    \E w \in DOMAIN user_cache :
        /\ Len(stores) = 2
        /\ \A i \in 1..2 : stores[i].pc = "returned" /\ stores[i].stored
        /\ DOMAIN user_cache[w].tokens_by_platform = Platforms
        /\ user_cache[w].total_tokens = 3

RECURSIVE SumOfAmounts(_)
SumOfAmounts(calls) ==
    IF calls = <<>> THEN 0 ELSE Head(calls).amount + SumOfAmounts(Tail(calls))

\* C34: when every update_wallet_earnings_cache call has ended, each with
\* its requests answered, the cached earnings are the sum of the amounts.
C34_NoLostEarnings ==
    (/\ earn_calls # <<>>
     /\ \A i \in 1..Len(earn_calls) : earn_calls[i].pc = "done" /\ earn_calls[i].answered)
    => float_or_0(CachedValue(EarnKey)) = SumOfAmounts(earn_calls)

\* The record_referral calls for the referee whose transaction the node took.
ReferralsSent(referee) ==
    {i \in 1..Len(referral_calls) :
        /\ referral_calls[i].referee = referee
        /\ referral_calls[i].pc \in {"update", "success"}}

\* The record_referral calls for the referee that queued the bonus.
BonusesQueued(referee) ==
    {i \in 1..Len(referral_calls) :
        referral_calls[i].referee = referee /\ referral_calls[i].pc = "success"}

\* C35: for every referee at most one referral transaction is submitted and
\* at most one REFERRAL bonus is queued, and a call that finds the referee
\* with a referrer ends with status error.
C35_OneReferralPerReferee ==
    /\ \A referee \in Wallets :
            /\ Cardinality(ReferralsSent(referee)) <= 1
            /\ Cardinality(BonusesQueued(referee)) <= 1
    /\ \A i \in 1..Len(referral_calls) :
            referral_calls[i].saw_referrer => referral_calls[i].pc = "error"

\* C36: a get of a key returns the value of the last set of the key that
\* completed, as long as no time to live asked for the key has run out,
\* whatever calls of the remote store have failed.
C36_ReadYourWrites ==
    (/\ cache_call.op = "get"
     /\ cache_call.written[cache_call.key] # None
     /\ \A d \in cache_call.deadline[cache_call.key] : cache_call.at < d)
    => cache_call.result = cache_call.written[cache_call.key]

\* C37: a store_message call that returns success with token_count t has
\* added exactly t to the total of its wallet, whether or not the message
\* was written to the conversation store.
C37_ReturnedTokensAccrued ==
    [][\A i \in 1..Len(stores) :
          (stores[i].pc = "embed" /\ stores'[i].pc = "returned")
            => TotalTokens(stores[i].wallet)' = TotalTokens(stores[i].wallet) + stores[i].tokens]_vars

\* C38: the message part of todayEarnings that the stats read reports is
\* the sum of the earned amounts store_message returned for the wallet that
\* day, the cache store having answered every call.
C38_TodayEarningsIsSumOfEarned ==
    (/\ today_earnings.read
     /\ today_earnings.answered
     /\ today_earnings.read_answered)
    => today_earnings.message_part = today_earnings.earned

\* C39: statistics reads do not bear on a check-in: every
\* process_daily_checkin replies what queue_action replies on the queue as it
\* stands (the reply of the run without the statistics read), and replies
\* already_checked_in only to a wallet with a check-in queued that day.
C39_CheckinIgnoresStatsReads ==
    [][(lastCall' # lastCall /\ lastCall'.op = "process_daily_checkin")
          => /\ lastCall'.status = QueueStatus(lastCall'.wallet, "DAILY_CHECKIN")
             /\ (lastCall'.status = "already_checked_in" => lastCall'.repeat)]_vars

====
